---------------------------- MODULE Spec2Model ----------------------------
(***************************************************************************)
(* Anomaly-detection and risk-scoring pipeline of the Smart Incident       *)
(* Predictor: the training buffer and (model, scaler) state of the two     *)
(* detector services (OptimizedAnomalyDetector and AnomalyDetector, each a *)
(* program of its own), the cooldown table of AlertManager and the scoring *)
(* function of RiskScorer, each translated from its source.                *)
(***************************************************************************)
EXTENDS Integers, Sequences, FiniteSets, TLC

VARIABLES
    max_training_samples,   \* the capacity of the training buffer (config)
    min_samples,            \* the minimum number of samples of a fit (config)
    training_data,          \* the detector's training_data
    is_trained,             \* the detector's is_trained
    model,                  \* the detector's model
    scaler,                 \* the detector's scaler
    running,                \* OptimizedAnomalyDetector.running
    pc,                     \* where the service is: "init", "wait", "loop",
                            \* "stopped" in OptimizedAnomalyDetector.start,
                            \* "legacy_init", "legacy_loop", "legacy_stopped"
                            \* in AnomalyDetector.run_continuous_detection
    detector_history,       \* len(AnomalyDetector.prediction_history)
    elapsed,                \* time.time() - start_time in _perform_initial_training
    next_id,                \* label of the record _collect_features returns next
    fit_count,              \* number of fits begun so far (labels each fit)
    last_op,                \* the last completed operation and what it did
    now,                    \* datetime.utcnow(), in seconds
    alert_cooldown,         \* AlertManager.alert_config['alert_cooldown']
    incident_counter,       \* AlertManager.alert_config['incident_counter']
    last_emit,              \* per level, when an alert was last dispatched
    last_send,              \* what the last send_alert call did
    prediction_history,     \* RiskScorer.prediction_history (the risk_score fields)
    hour,                   \* datetime.now().hour at the last scoring call
    last_raw,               \* risk_score of the last call before the clamp of line 71
    last_risk,              \* what calculate_risk_score returned last, in hundredths
    risk_level,             \* the last score classified and the level each of
                            \* _determine_risk_level and get_risk_level gave it
    last_call,              \* the inputs of the last RiskScorer call: anomaly
                            \* score, feature record, the history it found and
                            \* the stress sub-score it computed
    extracted,              \* the last FeatureExtractor.extract_features call:
                            \* its metrics, its logs and the record it returned
    recommended,            \* the last _generate_recommendations call: its
                            \* record, its level and the list it returned
    threads                 \* the locals of a _train_model call and of a
                            \* detection cycle that run in two threads

detVars == <<max_training_samples, min_samples, training_data, is_trained,
             model, scaler, running, pc, detector_history, elapsed, next_id,
             fit_count>>

alertVars == <<alert_cooldown, incident_counter, last_emit, last_send>>

vars == <<max_training_samples, min_samples, training_data, is_trained,
          model, scaler, running, pc, detector_history, elapsed, next_id,
          fit_count, last_op,
          now, alert_cooldown, incident_counter, last_emit, last_send,
          prediction_history, hour, last_raw, last_risk, risk_level,
          last_call, extracted, recommended, threads>>

riskVars == <<prediction_history, hour, last_raw, last_risk, risk_level,
              last_call, extracted, recommended, threads>>

(***************************************************************************)
(* Bounds of the model.                                                    *)
(***************************************************************************)
MaxCapacity == 5
MinSamplesSmall == 3
MaxFits == 2
MaxTime == 402
MaxCalls == 4

(***************************************************************************)
(* Program constants.                                                      *)
(***************************************************************************)
MaxWaitTime == 300
SleepSeconds == 30
CollectSeconds == 1
KeepAfterTrain == 100
CleanupKeep == 50
MinAlertInterval == 300
HighThreshold == 71
MediumThreshold == 31
AlertGate == 70
HistoryKeep == 1000
LegacyMinSamples == 100
LegacyMaxTraining == 10000
LegacyKeep == 5000
LegacyInitialSamples == 20
LegacyRiskThreshold == 50
LegacyHistoryKeep == 1000
DefaultMinSamples == 50
DefaultMaxSamples == 500

Min(a, b) == IF a <= b THEN a ELSE b
Max(a, b) == IF a >= b THEN a ELSE b

\* Python's floor division a // b for b > 0 (TLA+ \div floors as well).
FloorDiv(a, b) == a \div b

\* Python's lst[-k:] for an integer k: the last k entries when 0 < k <= len,
\* the whole list when k = 0 (lst[-0:] is lst[0:]) or k > len.
LastK(s, k) ==
    IF k <= 0 \/ k >= Len(s) THEN s
    ELSE SubSeq(s, Len(s) - k + 1, Len(s))

\* Each collected record gets the next label of the cycle 1..IdModulus; the
\* modulus is larger than any buffer.
IdModulus == MaxCapacity + 10
NextId(i) == (i % IdModulus) + 1

\* The configurations: an odd and an even capacity, each with a min_samples
\* below it and one above it (config.py validates neither).
Configs ==
    { <<cap, mn>> : cap \in {MaxCapacity - 1, MaxCapacity},
                    mn \in {MinSamplesSmall, MaxCapacity + 2} }

\* What an operation did: ok is its result (train's return value, whether
\* a record was collected), scored whether a prediction was made, alert
\* whether the score was handed to send_alert, trimmed whether the overflow
\* trim of the buffer ran, sample the collected record, n the number of
\* samples a train call was given, failed the stage of a loop pass that
\* raised.
NoOp == [op |-> "none", ok |-> TRUE, scored |-> FALSE, alert |-> FALSE,
         trimmed |-> FALSE, sample |-> 0, n |-> 0, failed |-> "none"]

Op(name, ok) == [NoOp EXCEPT !.op = name, !.ok = ok]

\* The slice bound of line 356: -self.max_training_samples//2. Unary minus
\* binds tighter than //, so this is (-cap)//2, and the slice keeps
\* -((-cap)//2) entries.
TrimKeep(cap) == 0 - FloorDiv(0 - cap, 2)

\* An append without the overflow trim of lines 355-356.
AddToTrainingDataNoTrim(buf, v, cap) == Append(buf, v)

\* _add_to_training_data: append, then the overflow trim.
AddToTrainingData(buf, v, cap) ==
    LET appended == Append(buf, v)
    IN  IF Len(appended) > cap THEN LastK(appended, TrimKeep(cap)) ELSE appended

AddTrims(buf, cap) == Len(buf) + 1 > cap

(***************************************************************************)
(* AlertManager (alert_manager.py).  Risk scores are fixed-point numbers   *)
(* in units of 1/ScoreScale.  A cooldown entry is the time of the last     *)
(* alert of the level, NoTime when the level has no entry.  send_alert     *)
(* reads the clock for the cooldown check (line 354) and again, after the  *)
(* alert went to its channels, for the new cooldown entry (line 365).      *)
(***************************************************************************)
ScoreScale == 1000 * 100
NoTime == 0 - 1
Levels == {"LOW", "MEDIUM", "HIGH"}

\* _determine_risk_level (lines 93-100).
DetermineRiskLevel(score) ==
    IF score >= HighThreshold * ScoreScale THEN "HIGH"
    ELSE IF score >= MediumThreshold * ScoreScale THEN "MEDIUM"
    ELSE "LOW"

\* A cooldown check that would still suppress at exactly the interval.
IsInCooldownInclusive(table, level, t) ==
    IF table[level] = 0 - 1 THEN FALSE
    ELSE t - table[level] <= MinAlertInterval

\* _is_in_cooldown (lines 347-360).
IsInCooldown(table, level, t) ==
    IF table[level] = NoTime THEN FALSE
    ELSE t - table[level] < MinAlertInterval

\* An update that would restart the cooldown of every level.
UpdateCooldownAllLevels(table, level, t) == [l \in DOMAIN table |-> t]

\* _update_cooldown (lines 362-367).
UpdateCooldown(table, level, t) == [table EXCEPT ![level] = t]

\* The channels of lines 81-83; each of the three senders can fail.
Channels == {"console", "sns", "cloudwatch"}
DeliveryFailures == SUBSET Channels

\* A send_alert that would start the cooldown only after a clean delivery.
CooldownAfterDispatchOnSuccess(table, level, t, failed) ==
    IF failed = {} THEN [table EXCEPT ![level] = t] ELSE table

\* The cooldown table after lines 81-86: each sender catches its own
\* exceptions (lines 281, 315, 344), so line 86 runs whatever failed.
CooldownAfterDispatch(table, level, t, failed) == UpdateCooldown(table, level, t)

\* The channel calls of one send_alert that got past the cooldown check:
\* lines 81-83 call each sender once, and no sender loops.
ChannelCalls(failed) == [c \in Channels |-> 1]

\* Whether send_alert raises to its caller after the alert was built: a
\* sender's failure stays inside the sender.
SendAlertRaises(failed) == FALSE

\* A check that would restart the cooldown on every attempt.
CooldownAfterCheckStamped(table, level, t) == [table EXCEPT ![level] = t]

\* The cooldown table after send_alert's check (line 73): the check reads
\* the table and leaves it alone.
CooldownAfterCheck(table, level, t) == table

\* What a send_alert call did: failed is the set of channels whose sender
\* failed, raised whether the call raised to its caller.
NoSend == [level |-> "LOW", attempted |-> FALSE, emitted |-> FALSE, at |-> NoTime,
           failed |-> {}, raised |-> FALSE]

\* send_alert (lines 63-91) with the score of alert_data, called at time
\* t; dispatching the alert to its channels takes d seconds.
SendAlert(score, t, d) ==
    LET level == DetermineRiskLevel(score)
        checked == CooldownAfterCheck(alert_cooldown, level, t)
    IN  IF IsInCooldown(alert_cooldown, level, t)
        THEN /\ alert_cooldown' = checked
             /\ last_send' = [NoSend EXCEPT !.level = level, !.attempted = TRUE,
                                            !.at = t]
             /\ UNCHANGED <<incident_counter, last_emit, now>>
        ELSE \E failed \in DeliveryFailures :
             /\ incident_counter' = incident_counter + 1
             /\ alert_cooldown' = CooldownAfterDispatch(checked, level, t + d, failed)
             /\ last_emit' = [last_emit EXCEPT ![level] = t + d]
             /\ last_send' = [level |-> level, attempted |-> TRUE,
                              emitted |-> TRUE, at |-> t, failed |-> failed,
                              raised |-> SendAlertRaises(failed)]
             /\ now' = t + d

AlertManagerInit ==
    /\ now = 0
    /\ alert_cooldown = [l \in Levels |-> NoTime]
    /\ incident_counter = 0
    /\ last_emit = [l \in Levels |-> NoTime]
    /\ last_send = NoSend

DetectorInit ==
    /\ training_data = << >>
    /\ is_trained = FALSE
    /\ model = [fit |-> 0, fitted |-> FALSE, present |-> FALSE]
    /\ scaler = 0
    /\ running = FALSE
    /\ pc = "init"
    /\ detector_history = 0
    /\ elapsed = 0
    /\ next_id = 1
    /\ fit_count = 0
    /\ last_op = NoOp

NoCall == [called |-> FALSE, a |-> 0, f |-> << >>, h |-> << >>, stress |-> 0]

NoExtract == [called |-> FALSE, metrics |-> << >>, logs |-> << >>,
              features |-> << >>]

NoLevel == [score |-> NoTime, alert |-> "NONE", scorer |-> "NONE"]

NoRecommendation == [called |-> FALSE, f |-> << >>, level |-> "NONE",
                     list |-> << >>]

\* No _train_model call and no detection pass in progress: train and
\* cycle are the positions of the two threads, result what the train call
\* did, kept the slice a thread has made and not yet assigned, stale
\* whether the list the pass has loaded is no longer self.training_data,
\* used the fits of the scaler and of the model the prediction read,
\* scored whether it computed a score, start the buffer both began with,
\* sample the record of the pass, over whether the pass cleaned up.
NoThreads == [train |-> "idle", cycle |-> "idle", result |-> "none",
              train_kept |-> << >>, cycle_kept |-> << >>, stale |-> FALSE,
              used |-> [scaler |-> 0, model |-> 0], scored |-> FALSE,
              start |-> << >>, sample |-> 0, over |-> FALSE]

RiskScorerInit ==
    /\ prediction_history = << >>
    /\ hour = 0
    /\ last_raw = 0
    /\ last_risk = 0
    /\ risk_level = NoLevel
    /\ last_call = NoCall
    /\ extracted = NoExtract
    /\ recommended = NoRecommendation
    /\ threads = NoThreads

\* OptimizedAnomalyDetector after __init__, with its configuration.
OptimizedInit ==
    /\ \E c \in Configs : max_training_samples = c[1] /\ min_samples = c[2]
    /\ DetectorInit

\* AnomalyDetector after __init__ (lines 41-69) and main's _load_model
\* (lines 375-395, 408): an unfitted forest and scaler, or the pair of the
\* pickle file, which train_model wrote after a fit (fit 1).
LegacyInit ==
    /\ max_training_samples = LegacyMaxTraining
    /\ min_samples = LegacyMinSamples
    /\ training_data = << >>
    /\ running = FALSE
    /\ pc = "legacy_init"
    /\ detector_history = 0
    /\ elapsed = 0
    /\ next_id = 1
    /\ last_op = NoOp
    /\ \E loaded \in BOOLEAN :
        /\ is_trained = loaded
        /\ model = [fit |-> IF loaded THEN 1 ELSE 0, fitted |-> loaded,
                    present |-> TRUE]
        /\ scaler = IF loaded THEN 1 ELSE 0
        /\ fit_count = IF loaded THEN 1 ELSE 0

Init ==
    /\ OptimizedInit \/ LegacyInit
    /\ AlertManagerInit
    /\ RiskScorerInit

(***************************************************************************)
(* OptimizedAnomalyDetector._calculate_risk_score.  Scores are fixed-point *)
(* numbers in units of 1/ScoreScale; anomaly_score and system_stress_score *)
(* are given in hundredths, error_rate in tenths.                          *)
(***************************************************************************)
Abs(x) == IF x < 0 THEN 0 - x ELSE x

\* Lines 479-484, in hundredths: 50 + |a|*50 capped at 100, or 50 - a*50
\* floored at 0.
DetNormalize(a) ==
    IF a < 0 THEN Min(10000, 5000 + 50 * Abs(a))
    ELSE Max(0, 5000 - 50 * a)

\* Lines 487-495.  risk * (1 + stress*0.5) is base*(200+stress)/200, and
\* *1.2 is *6/5: in units of 1/100000 the products are whole numbers.
DetCalculateRiskScore(a, stress, error_rate) ==
    LET risk1 == DetNormalize(a) * (200 + stress) * 5
        risk2 == IF error_rate > 50
                 THEN Min(100 * ScoreScale, (risk1 \div 5) * 6)
                 ELSE risk1
    IN  Min(100 * ScoreScale, Max(0, risk2))

\* The inputs of a prediction: the model's decision_function value and the
\* two features _calculate_risk_score reads.
AnomalyScores == {-100, -41, -40, 0, 60}
StressScores == {0, 20, 100}
ErrorRates == {10, 60}

(***************************************************************************)
(* OptimizedAnomalyDetector.start and _perform_initial_training.           *)
(***************************************************************************)
\* start (lines 85-100): with training_mode 'startup' the initial training
\* comes first, with any other mode the detection loop starts at once.
Start ==
    /\ pc = "init"
    /\ running' = TRUE
    /\ \E startup \in BOOLEAN :
        /\ pc' = IF startup THEN "wait" ELSE "loop"
        /\ last_op' = Op("start", startup)
    /\ elapsed' = 0
    /\ UNCHANGED <<now, alert_cooldown, incident_counter, last_emit, last_send>>
    /\ UNCHANGED riskVars
    /\ UNCHANGED detector_history
    /\ UNCHANGED <<max_training_samples, min_samples, training_data,
                   is_trained, model, scaler, next_id, fit_count>>

\* One pass of the while loop of lines 370-381: the time check fails, the
\* thread sleeps 30 s, collects a record and adds it.
WaitIteration ==
    /\ pc = "wait"
    /\ Len(training_data) < min_samples
    /\ ~(elapsed > MaxWaitTime)
    /\ \E collected \in BOOLEAN, c \in {0, CollectSeconds} :
        /\ elapsed' = elapsed + SleepSeconds + c
        /\ IF collected
           THEN /\ training_data' =
                      AddToTrainingData(training_data, next_id, max_training_samples)
                /\ next_id' = NextId(next_id)
                /\ last_op' = [Op("startup_collect", TRUE) EXCEPT
                                 !.trimmed = AddTrims(training_data, max_training_samples),
                                 !.sample = next_id]
           ELSE /\ UNCHANGED <<training_data, next_id>>
                /\ last_op' = Op("startup_collect", FALSE)
    /\ UNCHANGED <<now, alert_cooldown, incident_counter, last_emit, last_send>>
    /\ UNCHANGED riskVars
    /\ UNCHANGED detector_history
    /\ UNCHANGED <<max_training_samples, min_samples, is_trained, model,
                   scaler, running, pc, fit_count>>

\* Lines 371-373: the bounded wait is over, _perform_initial_training
\* returns without training and start() goes on to the detection loop.
GiveUp ==
    /\ pc = "wait"
    /\ Len(training_data) < min_samples
    /\ elapsed > MaxWaitTime
    /\ pc' = "loop"
    /\ elapsed' = 0
    /\ last_op' = Op("give_up", FALSE)
    /\ UNCHANGED <<now, alert_cooldown, incident_counter, last_emit, last_send>>
    /\ UNCHANGED riskVars
    /\ UNCHANGED detector_history
    /\ UNCHANGED <<max_training_samples, min_samples, training_data,
                   is_trained, model, scaler, running, next_id, fit_count>>

(***************************************************************************)
(* OptimizedAnomalyDetector._train_model, run under training_lock.         *)
(* outcome is what the fit does: "ok", "scaler_raises" (np.array or        *)
(* scaler.fit_transform raises, nothing assigned yet) or "model_raises"    *)
(* (model.fit raises after the scaler was refitted in place and self.model *)
(* was rebound to the new, unfitted forest).                               *)
(***************************************************************************)
TrainOutcomes == {"ok", "scaler_raises", "model_raises"}

\* The min_samples check off by one: a buffer one short passes.
InsufficientDataOffByOne(len, mn) == len < mn - 1

\* Lines 396-398: if len(self.training_data) < ml_config.min_samples.
InsufficientData(len, mn) == len < mn

\* A train call whose failure would clear the flag.
IsTrainedAfterReset(outcome, was) == outcome = "ok"

\* is_trained after a train call that got past the min_samples check: only
\* line 421 assigns it, and only to True.
IsTrainedAfter(outcome, was) == IF outcome = "ok" THEN TRUE ELSE was

\* The scaler after the call: fit_transform refits self.scaler in place.
ScalerAfter(outcome, old, fit) == IF outcome = "scaler_raises" THEN old ELSE fit

\* The model after the call: line 412 rebinds self.model before line 420 fits.
ModelAfter(outcome, old, fit) ==
    CASE outcome = "scaler_raises" -> old
      [] outcome = "model_raises"  -> [fit |-> fit, fitted |-> FALSE, present |-> TRUE]
      [] OTHER                     -> [fit |-> fit, fitted |-> TRUE, present |-> TRUE]

\* A trim that would keep the oldest entries.
BufferAfterTrainOldest(outcome, buf) ==
    IF outcome = "ok" THEN SubSeq(buf, 1, Min(Len(buf), KeepAfterTrain)) ELSE buf

\* Line 424: self.training_data[-100:] after a successful fit.
BufferAfterTrain(outcome, buf) ==
    IF outcome = "ok" THEN LastK(buf, KeepAfterTrain) ELSE buf

TrainModel(outcome) ==
    IF InsufficientData(Len(training_data), min_samples)
    THEN /\ last_op' = [Op("train", FALSE) EXCEPT !.n = Len(training_data)]
         /\ UNCHANGED <<training_data, is_trained, model, scaler, fit_count>>
    ELSE /\ fit_count' = fit_count + 1
         /\ scaler' = ScalerAfter(outcome, scaler, fit_count + 1)
         /\ model' = ModelAfter(outcome, model, fit_count + 1)
         /\ is_trained' = IsTrainedAfter(outcome, is_trained)
         /\ training_data' = BufferAfterTrain(outcome, training_data)
         /\ last_op' = [Op("train", outcome = "ok") EXCEPT
                          !.n = Len(training_data)]

\* Line 384: the wait loop has ended with enough samples.
InitialTrain ==
    /\ pc = "wait"
    /\ ~(Len(training_data) < min_samples)
    /\ \E outcome \in TrainOutcomes : TrainModel(outcome)
    /\ pc' = "loop"
    /\ elapsed' = 0
    /\ UNCHANGED <<now, alert_cooldown, incident_counter, last_emit, last_send>>
    /\ UNCHANGED riskVars
    /\ UNCHANGED detector_history
    /\ UNCHANGED <<max_training_samples, min_samples, running, next_id>>

\* _train_model called on its own at any time, as a scheduler or a test
\* would call it.
ExternalTrain ==
    /\ pc \in {"init", "wait", "loop", "stopped"}
    /\ fit_count < MaxFits
    /\ \E outcome \in TrainOutcomes : TrainModel(outcome)
    /\ UNCHANGED <<now, alert_cooldown, incident_counter, last_emit, last_send>>
    /\ UNCHANGED riskVars
    /\ UNCHANGED detector_history
    /\ UNCHANGED <<max_training_samples, min_samples, running, pc, elapsed, next_id>>

(***************************************************************************)
(* _train_model with the default configuration (min_samples 50, capacity   *)
(* 500) on a buffer of n records 1..n collected by a running loop, for n   *)
(* from below min_samples to above the 100 entries the trim keeps.         *)
(***************************************************************************)
TrainedBufferLengths == (DefaultMinSamples - 5)..(KeepAfterTrain + 25)

TrainTrimInit ==
    /\ max_training_samples = DefaultMaxSamples
    /\ min_samples = DefaultMinSamples
    /\ \E n \in TrainedBufferLengths :
        /\ training_data = [i \in 1..n |-> i]
        /\ next_id = n + 1
    /\ is_trained = FALSE
    /\ model = [fit |-> 0, fitted |-> FALSE, present |-> FALSE]
    /\ scaler = 0
    /\ running = TRUE
    /\ pc = "loop"
    /\ detector_history = 0
    /\ elapsed = 0
    /\ fit_count = 0
    /\ last_op = NoOp
    /\ AlertManagerInit
    /\ RiskScorerInit

TrainTrimSpec == TrainTrimInit /\ [][ExternalTrain]_vars

(***************************************************************************)
(* _cleanup_memory (lines 558-576).                                        *)
(***************************************************************************)
CleanupMemory(buf) == IF Len(buf) > CleanupKeep THEN LastK(buf, CleanupKeep) ELSE buf

(***************************************************************************)
(* _predict_anomaly (lines 436-473): the risk score and whether a score    *)
(* was computed.  With an unfitted model or scaler, transform or predict   *)
(* raises and the except branch returns 0.0.                               *)
(***************************************************************************)
CanPredict == model.present /\ model.fitted /\ scaler # 0

PredictAnomaly(a, stress, error_rate) ==
    IF CanPredict THEN DetCalculateRiskScore(a, stress, error_rate) ELSE 0

\* The risk scores one call of _predict_anomaly can return in this state.
PredictedRisks ==
    { PredictAnomaly(a, stress, er) :
        a \in AnomalyScores, stress \in StressScores, er \in ErrorRates }

\* _handle_prediction, line 512: the gate for handing the score on.
SendsAlert(risk) == risk > AlertGate * ScoreScale

\* A cycle that would predict without looking at is_trained.
RunsInferenceAlways(trained) == TRUE

\* The inference branch of _detection_cycle, line 151.
RunsInference(trained) == trained

(***************************************************************************)
(* One pass of the while loop of _start_detection_loop (lines 111-135):    *)
(* the memory check with its cleanup, then _detection_cycle.  A stage of   *)
(* the pass can raise: the memory check of lines 114-117 (caught on line   *)
(* 133), _collect_features (caught on line 184, the cycle returns on line  *)
(* 144), _add_to_training_data (caught on line 358), _predict_anomaly      *)
(* (caught on line 471, the score is 0.0) and _publish_health_metric       *)
(* (caught on line 537); a failing alert channel is part of send_alert.    *)
(***************************************************************************)
CycleFailures == {"memory_check", "collection", "append", "prediction", "publishing"}

\* A loop whose handler would leave the loop on a failure, as the handler
\* of KeyboardInterrupt does (lines 130-132).
LoopAfterPassBreaks(at, fail) == IF fail = "none" THEN at ELSE "stopped"

\* Where the thread is after a pass: every handler of a stage returns to
\* its caller, and the handler of lines 133-135 sleeps and goes back to the
\* top of the while loop.
LoopAfterPass(at, fail) == at

\* The pass in which the stage fail raises, or no stage with fail "none".
DetectionPass(fail) ==
    \E over \in BOOLEAN, collected \in BOOLEAN, risk \in PredictedRisks :
        LET cleaned == IF over THEN CleanupMemory(training_data) ELSE training_data
            adds == collected /\ Len(cleaned) < max_training_samples
                      /\ fail # "append"
            infer == collected /\ RunsInference(is_trained)
            score == IF fail = "prediction" THEN 0 ELSE risk
        IN  /\ fail = "memory_check" => ~over
            /\ fail \in {"memory_check", "collection"} => ~collected
            /\ fail \in {"append", "prediction", "publishing"} => collected
            /\ fail = "prediction" => infer
            /\ training_data' =
                 IF adds THEN AddToTrainingData(cleaned, next_id, max_training_samples)
                 ELSE cleaned
            /\ next_id' = IF collected /\ fail # "append"
                        THEN NextId(next_id) ELSE next_id
            /\ last_op' = [Op("cycle", collected) EXCEPT
                             !.scored = infer,
                             !.alert = infer /\ SendsAlert(score),
                             !.trimmed = adds /\ AddTrims(cleaned, max_training_samples),
                             !.sample = IF collected THEN next_id ELSE 0,
                             !.failed = fail]
            /\ IF infer /\ SendsAlert(score)
               THEN SendAlert(score, now, 0)
               ELSE UNCHANGED <<alertVars, now>>
            /\ pc' = LoopAfterPass(pc, fail)

\* A pass in which no stage raises.
LoopIteration ==
    /\ pc = "loop"
    /\ running
    /\ DetectionPass("none")
    /\ UNCHANGED riskVars
    /\ UNCHANGED detector_history
    /\ UNCHANGED <<max_training_samples, min_samples, is_trained, model,
                   scaler, running, elapsed, fit_count>>

\* A pass in which a stage raises.
FailingLoopIteration ==
    /\ pc = "loop"
    /\ running
    /\ \E fail \in CycleFailures : DetectionPass(fail)
    /\ UNCHANGED riskVars
    /\ UNCHANGED detector_history
    /\ UNCHANGED <<max_training_samples, min_samples, is_trained, model,
                   scaler, running, elapsed, fit_count>>

\* while self.running: the flag is read at the top of the loop.
LoopExit ==
    /\ pc = "loop"
    /\ ~running
    /\ pc' = "stopped"
    /\ last_op' = Op("loop_exit", TRUE)
    /\ UNCHANGED <<now, alert_cooldown, incident_counter, last_emit, last_send>>
    /\ UNCHANGED riskVars
    /\ UNCHANGED detector_history
    /\ UNCHANGED <<max_training_samples, min_samples, training_data,
                   is_trained, model, scaler, running, elapsed, next_id,
                   fit_count>>

\* A stop() that would log and leave the flag as it is.
StopLeavesFlag ==
    /\ running
    /\ last_op.op # "stop"
    /\ last_op' = Op("stop", TRUE)
    /\ UNCHANGED <<now, alert_cooldown, incident_counter, last_emit, last_send>>
    /\ UNCHANGED riskVars
    /\ UNCHANGED detector_history
    /\ UNCHANGED <<max_training_samples, min_samples, training_data,
                   is_trained, model, scaler, running, pc, elapsed, next_id,
                   fit_count>>

\* stop() (lines 102-105), called from outside the loop.
Stop ==
    /\ running
    /\ running' = FALSE
    /\ last_op' = Op("stop", TRUE)
    /\ UNCHANGED <<now, alert_cooldown, incident_counter, last_emit, last_send>>
    /\ UNCHANGED riskVars
    /\ UNCHANGED detector_history
    /\ UNCHANGED <<max_training_samples, min_samples, training_data,
                   is_trained, model, scaler, pc, elapsed, next_id, fit_count>>

(***************************************************************************)
(* _train_model called from a second thread while the thread of the loop   *)
(* makes a pass.  _train_model holds training_lock (line 395); the pass    *)
(* takes no lock, so between any two attribute reads and writes of one     *)
(* thread the other can run.  The steps are the reads and writes of        *)
(* self.training_data, self.scaler, self.model and self.is_trained; a      *)
(* call of list.append, of a slice or of a fit is one step.                *)
(***************************************************************************)
\* The buffer a pass leaves when it runs alone: _cleanup_memory when memory
\* is over the threshold, the test of line 147, _add_to_training_data.
PassBuffer(buf, v, over, cap) ==
    LET cleaned == IF over THEN CleanupMemory(buf) ELSE buf
    IN  IF Len(cleaned) < cap THEN AddToTrainingData(cleaned, v, cap) ELSE cleaned

\* What a rebinding of self.training_data means for the other thread: the
\* list it has loaded and not yet appended to is no longer the buffer.
Rebound(t) == [t EXCEPT !.stale = (t.cycle = "loaded")]

\* What no step of the two threads changes.
RaceFrame ==
    /\ UNCHANGED <<max_training_samples, min_samples, running, pc,
                   detector_history, elapsed, next_id, last_op>>
    /\ UNCHANGED <<now, alert_cooldown, incident_counter, last_emit, last_send>>
    /\ UNCHANGED <<prediction_history, hour, last_raw, last_risk, risk_level,
                   last_call, extracted, recommended>>

\* Lines 395-404: the lock, the min_samples test, the copy of the buffer.
TrainBegin ==
    /\ threads.train = "idle"
    /\ IF InsufficientData(Len(training_data), min_samples)
       THEN /\ threads' = [threads EXCEPT !.train = "done",
                                          !.result = "insufficient"]
            /\ UNCHANGED fit_count
       ELSE /\ threads' = [threads EXCEPT !.train = "copied"]
            /\ fit_count' = fit_count + 1
    /\ UNCHANGED <<training_data, is_trained, model, scaler>>
    /\ RaceFrame

\* Line 409: scaler.fit_transform refits self.scaler in place, or raises.
TrainScale ==
    /\ threads.train = "copied"
    /\ \E raises \in BOOLEAN :
        IF raises
        THEN /\ threads' = [threads EXCEPT !.train = "done",
                                           !.result = "scaler_raises"]
             /\ UNCHANGED scaler
        ELSE /\ threads' = [threads EXCEPT !.train = "scaled"]
             /\ scaler' = ScalerAfter("ok", scaler, fit_count)
    /\ UNCHANGED <<training_data, is_trained, model, fit_count>>
    /\ RaceFrame

\* Line 412: self.model is rebound to a new forest.
TrainRebind ==
    /\ threads.train = "scaled"
    /\ threads' = [threads EXCEPT !.train = "rebound"]
    /\ model' = ModelAfter("model_raises", model, fit_count)
    /\ UNCHANGED <<training_data, is_trained, scaler, fit_count>>
    /\ RaceFrame

\* Lines 420-421: model.fit fits the forest or raises; is_trained.
TrainFit ==
    /\ threads.train = "rebound"
    /\ \E raises \in BOOLEAN :
        IF raises
        THEN /\ threads' = [threads EXCEPT !.train = "done",
                                           !.result = "model_raises"]
             /\ UNCHANGED <<model, is_trained>>
        ELSE /\ threads' = [threads EXCEPT !.train = "fitted"]
             /\ model' = ModelAfter("ok", model, fit_count)
             /\ is_trained' = IsTrainedAfter("ok", is_trained)
    /\ UNCHANGED <<training_data, scaler, fit_count>>
    /\ RaceFrame

\* Line 424, right-hand side: self.training_data[-100:] makes a new list.
TrainSlice ==
    /\ threads.train = "fitted"
    /\ threads' = [threads EXCEPT !.train = "sliced",
                                  !.train_kept = BufferAfterTrain("ok", training_data)]
    /\ UNCHANGED <<training_data, is_trained, model, scaler, fit_count>>
    /\ RaceFrame

\* Line 424, the assignment; the lock is released and True returned.
TrainAssign ==
    /\ threads.train = "sliced"
    /\ training_data' = threads.train_kept
    /\ threads' = [Rebound(threads) EXCEPT !.train = "done", !.result = "ok",
                                           !.train_kept = << >>]
    /\ UNCHANGED <<is_trained, model, scaler, fit_count>>
    /\ RaceFrame

\* Lines 114-117 and 564-565: the memory check, and the slice of
\* _cleanup_memory when the buffer has more than 50 entries.
PassBegin ==
    /\ threads.cycle = "idle"
    /\ \E over \in BOOLEAN :
        IF over /\ Len(training_data) > CleanupKeep
        THEN threads' = [threads EXCEPT !.cycle = "cleaning", !.over = over,
                           !.cycle_kept = LastK(training_data, CleanupKeep)]
        ELSE threads' = [threads EXCEPT !.cycle = "collected", !.over = over]
    /\ UNCHANGED <<training_data, is_trained, model, scaler, fit_count>>
    /\ RaceFrame

\* Line 565, the assignment.
PassCleanupAssign ==
    /\ threads.cycle = "cleaning"
    /\ training_data' = threads.cycle_kept
    /\ threads' = [threads EXCEPT !.cycle = "collected", !.cycle_kept = << >>]
    /\ UNCHANGED <<is_trained, model, scaler, fit_count>>
    /\ RaceFrame

\* Lines 147-148 and 352, first half: the test of the length, and the load
\* of self.training_data for the append.
PassLoad ==
    /\ threads.cycle = "collected"
    /\ threads' = [threads EXCEPT
                     !.cycle = IF Len(training_data) < max_training_samples
                               THEN "loaded" ELSE "added",
                     !.stale = FALSE]
    /\ UNCHANGED <<training_data, is_trained, model, scaler, fit_count>>
    /\ RaceFrame

\* Lines 352-356: the append, to the list that was loaded.  The test of
\* line 355 then fails: line 147 let a buffer below capacity through, and
\* the other thread adds nothing.
PassAppend ==
    /\ threads.cycle = "loaded"
    /\ training_data' = IF threads.stale THEN training_data
                        ELSE Append(training_data, threads.sample)
    /\ threads' = [threads EXCEPT !.cycle = "added", !.stale = FALSE]
    /\ UNCHANGED <<is_trained, model, scaler, fit_count>>
    /\ RaceFrame

\* Lines 151 and 450: the test of is_trained, and the record is
\* transformed with self.scaler.
PassTransform ==
    /\ threads.cycle = "added"
    /\ IF RunsInference(is_trained)
       THEN threads' = [threads EXCEPT !.cycle = "transformed",
                                       !.used.scaler = scaler]
       ELSE threads' = [threads EXCEPT !.cycle = "done"]
    /\ UNCHANGED <<training_data, is_trained, model, scaler, fit_count>>
    /\ RaceFrame

\* Lines 453-457: the record is scored with self.model; an unfitted forest
\* or scaler raises and the except branch of line 471 returns 0.0.
PassPredict ==
    /\ threads.cycle = "transformed"
    /\ threads' = [threads EXCEPT
                     !.cycle = "done",
                     !.used.model = model.fit,
                     !.scored = model.present /\ model.fitted
                                  /\ threads.used.scaler # 0]
    /\ UNCHANGED <<training_data, is_trained, model, scaler, fit_count>>
    /\ RaceFrame

\* A detector that was trained at startup and has n records in its
\* buffer, with the default configuration or a small one.
RaceConfigs ==
    {<<DefaultMaxSamples, DefaultMinSamples>>, <<MaxCapacity, MinSamplesSmall>>}

RaceLengths(config) ==
    IF config[1] = DefaultMaxSamples
    THEN {DefaultMinSamples, DefaultMinSamples + 1, KeepAfterTrain + 1}
    ELSE config[2]..config[1]

RaceInit ==
    /\ \E config \in RaceConfigs :
        /\ max_training_samples = config[1]
        /\ min_samples = config[2]
        /\ \E n \in RaceLengths(config) :
            /\ training_data = [i \in 1..n |-> i]
            /\ next_id = n + 1
            /\ threads = [NoThreads EXCEPT !.start = [i \in 1..n |-> i],
                                           !.sample = n + 1]
    /\ is_trained = TRUE
    /\ model = [fit |-> 1, fitted |-> TRUE, present |-> TRUE]
    /\ scaler = 1
    /\ fit_count = 1
    /\ running = TRUE
    /\ pc = "loop"
    /\ detector_history = 0
    /\ elapsed = 0
    /\ last_op = NoOp
    /\ AlertManagerInit
    /\ prediction_history = << >>
    /\ hour = 0
    /\ last_raw = 0
    /\ last_risk = 0
    /\ risk_level = NoLevel
    /\ last_call = NoCall
    /\ extracted = NoExtract
    /\ recommended = NoRecommendation

RaceNext ==
    \/ TrainBegin
    \/ TrainScale
    \/ TrainRebind
    \/ TrainFit
    \/ TrainSlice
    \/ TrainAssign
    \/ PassBegin
    \/ PassCleanupAssign
    \/ PassLoad
    \/ PassAppend
    \/ PassTransform
    \/ PassPredict

RaceSpec == RaceInit /\ [][RaceNext]_vars

(***************************************************************************)
(* The alert manager on its own: send_alert called with any score, and the *)
(* clock moving on between calls.                                          *)
(***************************************************************************)
AlertScores ==
    { 10 * ScoreScale, 31 * ScoreScale, 70 * ScoreScale + 50000,
      71 * ScoreScale, 100 * ScoreScale }

TickSteps == {100, 201}
DispatchSeconds == {0, 1}

AlertAttempt ==
    /\ \E score \in AlertScores, d \in DispatchSeconds :
        /\ now + d <= MaxTime
        /\ SendAlert(score, now, d)
    /\ UNCHANGED detVars
    /\ UNCHANGED last_op
    /\ UNCHANGED riskVars

Tick ==
    /\ \E d \in TickSteps :
        /\ now + d <= MaxTime
        /\ now' = now + d
    /\ UNCHANGED alertVars
    /\ UNCHANGED detVars
    /\ UNCHANGED last_op
    /\ UNCHANGED riskVars

AlertInit ==
    /\ max_training_samples = MaxCapacity
    /\ min_samples = MinSamplesSmall
    /\ DetectorInit
    /\ AlertManagerInit
    /\ RiskScorerInit

AlertNext ==
    \/ AlertAttempt
    \/ Tick

AlertSpec == AlertInit /\ [][AlertNext]_vars

(***************************************************************************)
(* RiskScorer (risk_scorer.py).  A feature record gives cpu_current,       *)
(* memory_current and disk_current in percent, system_stress_score,        *)
(* slow_requests_ratio and the two log_pattern ratios in hundredths,       *)
(* log_error_ratio in thousandths, recent_error_spike in tenths and the    *)
(* response times in milliseconds.  The anomaly score is given in          *)
(* twentieths.  A risk score is a whole number of 1/RiskDen: RiskDen is    *)
(* 16 (the weighted sum) * 200 (the severity factors 3/2, 13/10, 13/10)    *)
(* * 2000 (the temporal factors 12/10 or 9/10, 11/10, 22/20 or 21/20), so  *)
(* every product below is exact.                                           *)
(***************************************************************************)
RiskDen == 16 * 200 * 2000

RECURSIVE SumSeq(_)
SumSeq(q) == IF q = << >> THEN 0 ELSE Head(q) + SumSeq(Tail(q))

\* _normalize_anomaly_score (lines 82-91), in halves of a point.
NormalizeAnomalyScore(a) ==
    IF a < 0 THEN Min(200, 100 + 5 * Abs(a))
    ELSE Max(0, 100 - 5 * a)

\* A CPU ladder whose top bracket would score below the one under it.
CpuStressTopBracketLow(cpu) ==
    IF cpu > 90 THEN 50 ELSE IF cpu > 80 THEN 75
    ELSE IF cpu > 70 THEN 50 ELSE IF cpu > 50 THEN 25 ELSE 0

\* Lines 99-109.
CpuStress(cpu) ==
    IF cpu > 90 THEN 100 ELSE IF cpu > 80 THEN 75
    ELSE IF cpu > 70 THEN 50 ELSE IF cpu > 50 THEN 25 ELSE 0

MemoryStress(mem) ==
    IF mem > 95 THEN 100 ELSE IF mem > 85 THEN 75
    ELSE IF mem > 75 THEN 50 ELSE IF mem > 60 THEN 25 ELSE 0

DiskStress(disk) ==
    IF disk > 95 THEN 100 ELSE IF disk > 85 THEN 75
    ELSE IF disk > 75 THEN 50 ELSE 0

\* _calculate_system_stress_score (lines 93-143), in quarters of a point:
\* np.mean of the four indicators is their sum / 4.
CalculateSystemStressScore(f) ==
    CpuStress(f.cpu_current) + MemoryStress(f.memory_current)
        + DiskStress(f.disk_current) + f.system_stress_score

\* The ladder of lines 157-186.
ErrorRateLadder(f) ==
    LET base == IF f.log_error_ratio > 200 THEN 80
                ELSE IF f.log_error_ratio > 100 THEN 60
                ELSE IF f.log_error_ratio > 50 THEN 40
                ELSE IF f.log_error_ratio > 10 THEN 20 ELSE 0
        spike == IF f.recent_error_spike > 50 THEN 40
                 ELSE IF f.recent_error_spike > 30 THEN 25
                 ELSE IF f.recent_error_spike > 20 THEN 15 ELSE 0
        diversity == IF f.error_types_count > 5 THEN 20
                     ELSE IF f.error_types_count > 3 THEN 10
                     ELSE IF f.error_types_count > 1 THEN 5 ELSE 0
    IN  Min(100, base + spike + diversity)

\* _calculate_error_rate_score (lines 145-190).  The parameter is named
\* float (line 145), so the first statement of the body, features.get(...)
\* on line 149, raises NameError inside the try, and the except branch of
\* lines 188-190 returns 0.0 for every record: the ladder never runs.
CalculateErrorRateScore(f) == 0

\* _calculate_performance_score (lines 192-241).
CalculatePerformanceScore(f) ==
    LET cur == IF f.response_time_current > 5000 THEN 80
               ELSE IF f.response_time_current > 2000 THEN 60
               ELSE IF f.response_time_current > 1000 THEN 40
               ELSE IF f.response_time_current > 500 THEN 20 ELSE 0
        p95 == IF f.response_time_p95 > 3000 THEN 60
               ELSE IF f.response_time_p95 > 1500 THEN 40
               ELSE IF f.response_time_p95 > 800 THEN 20 ELSE 0
        logp == IF f.log_response_time_p95 > 2000 THEN 40
                ELSE IF f.log_response_time_p95 > 1000 THEN 25
                ELSE IF f.log_response_time_p95 > 500 THEN 10 ELSE 0
        slow == IF f.slow_requests_ratio > 20 THEN 50
                ELSE IF f.slow_requests_ratio > 10 THEN 30
                ELSE IF f.slow_requests_ratio > 5 THEN 15 ELSE 0
    IN  Min(100, cur + p95 + logp + slow)

\* Lines 57-62, in sixteenths of a point.  With the normalized score in
\* halves and the stress score in quarters, 80 times the weighted sum is
\* 16*norm + 5*stress + 16*error + 12*perf; norm, error and perf are
\* multiples of 5, so a fifth of it is a whole number of sixteenths.
WeightedSum(norm, stress, err, perf) ==
    (16 * norm + 5 * stress + 16 * err + 12 * perf) \div 5

\* _apply_severity_multipliers (lines 243-266), as the numerator of the
\* multiplier over 200.
SeverityMultiplier(f) ==
    LET critical == IF f.cpu_current > 95 \/ f.memory_current > 98 THEN 3 ELSE 2
        connection == IF f.log_pattern_connection_ratio > 10 THEN 13 ELSE 10
        database == IF f.log_pattern_database_ratio > 5 THEN 13 ELSE 10
    IN  critical * connection * database

\* recent_predictions = self.prediction_history[-10:] (line 272).
RecentScores(h) == LastK(h, 10)

\* np.polyfit(range(n), scores, 1)[0] is 2 * Sum(w[i]*y[i]) / Sum(w[i]^2)
\* with w[i] = 2*i - (n-1).  TrendExcess(r, k) is the sign of slope - k:
\* both sides are split into whole points and the rest, so that no product
\* leaves 32 bits.
TrendExcess(r, k) ==
    LET n == Len(r)
        w(i) == 2 * (i - 1) - (n - 1)
        whole == 2 * SumSeq([i \in 1..n |-> w(i) * (r[i] \div RiskDen)])
                 - k * SumSeq([i \in 1..n |-> w(i) * w(i)])
        rest == 2 * SumSeq([i \in 1..n |-> w(i) * (r[i] % RiskDen)])
    IN  IF whole > 100 THEN 1
        ELSE IF whole < 0 - 100 THEN 0 - 1
        ELSE IF whole * RiskDen + rest > 0 THEN 1
        ELSE IF whole * RiskDen + rest < 0 THEN 0 - 1
        ELSE 0

\* Lines 278-283: *1.2 on a rising trend, *0.9 on a falling one, over 10.
TrendMultiplier(h) ==
    LET r == RecentScores(h)
    IN  IF Len(r) >= 3
        THEN IF TrendExcess(r, 5) > 0 THEN 12
             ELSE IF TrendExcess(r, 0 - 5) < 0 THEN 9
             ELSE 10
        ELSE 10

\* Lines 285-287: *1.1 when the mean of the last three scores is above 60.
SustainedMultiplier(h) ==
    LET r == RecentScores(h)
    IN  IF Len(r) >= 3 /\ SumSeq(LastK(r, 3)) > 180 * RiskDen THEN 11 ELSE 10

\* Lines 289-294: the time-of-day factor, over 20.
TimeOfDayMultiplier(hr) ==
    IF 2 <= hr /\ hr <= 5 THEN 22
    ELSE IF 9 <= hr /\ hr <= 17 THEN 21
    ELSE 20

\* _apply_temporal_context (lines 268-300), as the numerator over 2000.
TemporalMultiplier(h, hr) ==
    TrendMultiplier(h) * SustainedMultiplier(h) * TimeOfDayMultiplier(hr)

\* A clamp without its upper bound: what line 71 would be as max(0, x).
ClampRiskLowerOnly(x) == Max(0, x)

\* Line 71: max(0, min(100, risk_score)).
ClampRisk(x) == Max(0, Min(100 * RiskDen, x))

\* Lines 49-68: the weighted sum with the severity and temporal multipliers
\* applied, before the clamp.
RiskBeforeClamp(a, f, h, hr) ==
    WeightedSum(NormalizeAnomalyScore(a), CalculateSystemStressScore(f),
                CalculateErrorRateScore(f), CalculatePerformanceScore(f))
      * SeverityMultiplier(f) * TemporalMultiplier(h, hr)

\* Lines 49-71: the score before it is stored and rounded.
RiskBeforeRounding(a, f, h, hr) == ClampRisk(RiskBeforeClamp(a, f, h, hr))

\* round(risk_score, 2) (line 76): to the nearest hundredth, ties to even.
RoundHundredths(x) ==
    LET unit == RiskDen \div 100
        q == x \div unit
        r == x % unit
    IN  IF 2 * r > unit THEN q + 1
        ELSE IF 2 * r < unit THEN q
        ELSE q + (q % 2)

\* A store that would drop the newest entries of a full history.
StorePredictionKeepOldest(h, x) ==
    LET appended == Append(h, x)
    IN  SubSeq(appended, 1, Min(Len(appended), HistoryKeep))

\* _store_prediction (lines 302-318).
StorePrediction(h, x) ==
    LET appended == Append(h, x)
    IN  IF Len(appended) > HistoryKeep THEN LastK(appended, HistoryKeep) ELSE appended

\* calculate_risk_score (lines 45-80): the returned score, in hundredths.
CalculateRiskScoreResult(a, f, h, hr) == RoundHundredths(RiskBeforeRounding(a, f, h, hr))

IdleRecord ==
    [cpu_current |-> 0, memory_current |-> 0, disk_current |-> 0,
     system_stress_score |-> 0, log_error_ratio |-> 0,
     recent_error_spike |-> 10, error_types_count |-> 0,
     response_time_current |-> 0, response_time_p95 |-> 0,
     log_response_time_p95 |-> 0, slow_requests_ratio |-> 0,
     log_pattern_connection_ratio |-> 0, log_pattern_database_ratio |-> 0]

CriticalRecord ==
    [cpu_current |-> 96, memory_current |-> 99, disk_current |-> 96,
     system_stress_score |-> 100, log_error_ratio |-> 300,
     recent_error_spike |-> 60, error_types_count |-> 6,
     response_time_current |-> 6000, response_time_p95 |-> 3500,
     log_response_time_p95 |-> 2500, slow_requests_ratio |-> 30,
     log_pattern_connection_ratio |-> 20, log_pattern_database_ratio |-> 10]

\* A record with a busy CPU and nothing else out of the ordinary:
\* cpu_current 95, memory_current 60, log_error_ratio 0.02,
\* response_time_current 150.
BusyCpuRecord ==
    [IdleRecord EXCEPT !.cpu_current = 95, !.memory_current = 60,
                       !.log_error_ratio = 20, !.response_time_current = 150]

FeatureRecords == {IdleRecord, CriticalRecord}
RiskAnomalyScores == {0 - 20, 10}
Hours == {3, 12, 20}

\* The (anomaly score, record) pairs of the calls; -0.2 is -4 twentieths.
RiskInputs ==
    (RiskAnomalyScores \X FeatureRecords) \cup {<<0 - 4, BusyCpuRecord>>}

\* What a call leaves in last_call.
CallOf(a, f, h) ==
    [called |-> TRUE, a |-> a, f |-> f, h |-> h,
     stress |-> CalculateSystemStressScore(f)]

\* One call of RiskScorer.calculate_risk_score.
CalculateRiskScore ==
    /\ Len(prediction_history) < MaxCalls
    /\ \E in \in RiskInputs, hr \in Hours :
        LET a == in[1]
            f == in[2]
            x == RiskBeforeRounding(a, f, prediction_history, hr)
        IN  /\ prediction_history' = StorePrediction(prediction_history, x)
            /\ last_risk' = CalculateRiskScoreResult(a, f, prediction_history, hr)
            /\ last_raw' = RiskBeforeClamp(a, f, prediction_history, hr)
            /\ hour' = hr
            /\ last_call' = CallOf(a, f, prediction_history)
    /\ UNCHANGED <<risk_level, extracted, recommended, threads>>
    /\ UNCHANGED <<now, alert_cooldown, incident_counter, last_emit, last_send>>
    /\ UNCHANGED detVars
    /\ UNCHANGED last_op

RiskInit ==
    /\ max_training_samples = MaxCapacity
    /\ min_samples = MinSamplesSmall
    /\ DetectorInit
    /\ AlertManagerInit
    /\ RiskScorerInit

RiskNext == CalculateRiskScore

RiskSpec == RiskInit /\ [][RiskNext]_vars

(***************************************************************************)
(* calculate_risk_score called once on a RiskScorer that has scored n      *)
(* records before, for n up to 3 and for n from 997 to the 1000 entries    *)
(* the history keeps; the i-th entry of the history is i % 97 points.      *)
(***************************************************************************)
HistoryLengths == (0..3) \cup ((HistoryKeep - 3)..HistoryKeep)

HistoryInit ==
    /\ max_training_samples = MaxCapacity
    /\ min_samples = MinSamplesSmall
    /\ DetectorInit
    /\ AlertManagerInit
    /\ \E n \in HistoryLengths :
          prediction_history = [i \in 1..n |-> (i % 97) * RiskDen]
    /\ hour = 0
    /\ last_raw = 0
    /\ last_risk = 0
    /\ risk_level = NoLevel
    /\ last_call = NoCall
    /\ extracted = NoExtract
    /\ recommended = NoRecommendation
    /\ threads = NoThreads

ScoreOnHistory ==
    /\ ~last_call.called
    /\ \E in \in RiskInputs, hr \in Hours :
        LET a == in[1]
            f == in[2]
            x == RiskBeforeRounding(a, f, prediction_history, hr)
        IN  /\ prediction_history' = StorePrediction(prediction_history, x)
            /\ last_risk' = CalculateRiskScoreResult(a, f, prediction_history, hr)
            /\ last_raw' = RiskBeforeClamp(a, f, prediction_history, hr)
            /\ hour' = hr
            /\ last_call' = [CallOf(a, f, << >>) EXCEPT
                               !.h = RecentScores(prediction_history)]
    /\ UNCHANGED <<risk_level, extracted, recommended, threads>>
    /\ UNCHANGED <<now, alert_cooldown, incident_counter, last_emit, last_send>>
    /\ UNCHANGED detVars
    /\ UNCHANGED last_op

HistorySpec == HistoryInit /\ [][ScoreOnHistory]_vars

(***************************************************************************)
(* _calculate_system_stress_score on its own, called with records that     *)
(* differ in cpu_current, memory_current, disk_current and                 *)
(* system_stress_score.                                                    *)
(***************************************************************************)
CpuLevels == {50, 70, 80, 90, 95}

StressRecords ==
    { [IdleRecord EXCEPT !.cpu_current = c, !.memory_current = m,
                         !.disk_current = d, !.system_stress_score = x] :
        c \in CpuLevels, m \in {0, 61, 96}, d \in {0, 76, 96},
        x \in {0, 50, 100} }

ScoreStress ==
    /\ \E f \in StressRecords :
          last_call' = [NoCall EXCEPT !.f = f,
                                      !.stress = CalculateSystemStressScore(f)]
    /\ UNCHANGED <<prediction_history, hour, last_raw, last_risk, risk_level,
                   extracted, recommended, threads>>
    /\ UNCHANGED <<now, alert_cooldown, incident_counter, last_emit, last_send>>
    /\ UNCHANGED detVars
    /\ UNCHANGED last_op

StressSpec == RiskInit /\ [][ScoreStress]_vars

(***************************************************************************)
(* FeatureExtractor (feature_extractor.py).  A dict is a function from its *)
(* keys; d.update(e) is e @@ d.  Metrics are a dict from series names to   *)
(* lists; a log has its level, the names of the log_patterns its message   *)
(* matches, and response_time_ms (0 when absent: the test of line 183      *)
(* skips both).  The series and logs drawn hold at most one distinct       *)
(* value, so the mean, the minimum, the maximum and every percentile of a  *)
(* non-empty list are that value; lists have fewer than two entries, so    *)
(* the standard deviation, the trend and the correlation take their        *)
(* short-list branch; logs carry no timestamp and no error_type.  Percent  *)
(* and millisecond values are whole numbers, ratios are in hundredths,     *)
(* log_rate_per_minute in fifths.                                          *)
(***************************************************************************)
LastOrZero(data) == IF Len(data) > 0 THEN data[Len(data)] ELSE 0

\* _get_default_metric_features (lines 429-440).
GetDefaultMetricFeatures ==
    [cpu_current |-> 0, cpu_mean |-> 0, cpu_trend |-> 0, memory_current |-> 0,
     memory_mean |-> 0, disk_current |-> 0, system_stress_score |-> 0,
     anomaly_likelihood |-> 0]

\* Default log features that would leave recent_error_spike out.
DefaultLogFeaturesWithoutSpike ==
    [log_count_total |-> 0, log_rate_per_minute |-> 0, log_error_ratio |-> 0,
     log_warning_ratio |-> 0, log_info_ratio |-> 0, error_types_count |-> 0]

\* _get_default_log_features (lines 442-452).
GetDefaultLogFeatures ==
    [log_count_total |-> 0, log_rate_per_minute |-> 0, log_error_ratio |-> 0,
     log_warning_ratio |-> 0, log_info_ratio |-> 0, error_types_count |-> 0,
     recent_error_spike |-> 0]

\* _extract_time_series_features (lines 263-296) for a list of fewer than
\* ten entries that holds one distinct value.
ExtractTimeSeriesFeatures(data, prefix) ==
    IF data = << >> THEN << >>
    ELSE LET v == data[1]
         IN  ((prefix \o "_mean") :> v) @@ ((prefix \o "_std") :> 0)
             @@ ((prefix \o "_min") :> v) @@ ((prefix \o "_max") :> v)
             @@ ((prefix \o "_p50") :> v) @@ ((prefix \o "_p90") :> v)
             @@ ((prefix \o "_p95") :> v) @@ ((prefix \o "_p99") :> v)

\* _calculate_trend (lines 384-398): 0 for fewer than two entries, and the
\* slope of a constant list is 0.
CalculateTrend(data) == 0

\* _extract_response_time_features (lines 342-361).
ExtractResponseTimeFeatures(rt_data) ==
    IF rt_data = << >> THEN << >>
    ELSE LET slow == Cardinality({i \in 1..Len(rt_data) : rt_data[i] > 1000})
         IN  [response_time_current |-> LastOrZero(rt_data),
              response_time_avg |-> rt_data[1],
              response_time_p95 |-> rt_data[1],
              response_time_max |-> rt_data[1],
              slow_requests_ratio |-> (100 * slow) \div Len(rt_data)]

\* _extract_metric_features (lines 65-128): the defaults for an empty
\* dict; otherwise each series that is present adds its fields and a
\* series that is absent adds nothing.
ExtractMetricFeatures(metrics) ==
    IF DOMAIN metrics = {} THEN GetDefaultMetricFeatures
    ELSE LET cpu == IF "cpu_utilization" \in DOMAIN metrics
                    THEN LET cpu_data == metrics["cpu_utilization"]
                         IN  [cpu_current |-> LastOrZero(cpu_data),
                              cpu_trend |-> CalculateTrend(cpu_data),
                              cpu_volatility |-> 0]
                             @@ ExtractTimeSeriesFeatures(cpu_data, "cpu")
                    ELSE << >>
             mem == IF "memory_utilization" \in DOMAIN metrics
                    THEN LET mem_data == metrics["memory_utilization"]
                         IN  [memory_current |-> LastOrZero(mem_data),
                              memory_trend |-> CalculateTrend(mem_data)]
                             @@ ExtractTimeSeriesFeatures(mem_data, "memory")
                    ELSE << >>
             disk == IF "disk_utilization" \in DOMAIN metrics
                     THEN LET disk_data == metrics["disk_utilization"]
                          IN  [disk_current |-> LastOrZero(disk_data)]
                              @@ ExtractTimeSeriesFeatures(disk_data, "disk")
                     ELSE << >>
             rt == IF "response_time" \in DOMAIN metrics
                   THEN ExtractResponseTimeFeatures(metrics["response_time"])
                   ELSE << >>
         IN  rt @@ disk @@ mem @@ cpu

\* _extract_log_features (lines 130-199); the pattern names are the keys
\* of self.log_patterns (lines 21-29).
ExtractLogFeatures(logs) ==
    IF logs = << >> THEN GetDefaultLogFeatures
    ELSE LET total == Len(logs)
             Level(l) == Cardinality({i \in 1..total : logs[i].level = l})
             Matches(p) == Cardinality({i \in 1..total : p \in logs[i].patterns})
             Pattern(p) ==
                 ("log_pattern_" \o p \o "_ratio") :> ((100 * Matches(p)) \div total)
             timed == {i \in 1..total : logs[i].response_time_ms # 0}
             rt == IF timed = {} THEN 0
                   ELSE logs[CHOOSE i \in timed : TRUE].response_time_ms
             errors == IF Level("ERROR") > 0
                       THEN [error_types_count |-> 1, recent_error_spike |-> 0]
                       ELSE << >>
         IN  [log_response_time_avg |-> rt, log_response_time_p95 |-> rt,
              log_response_time_max |-> rt]
             @@ errors
             @@ Pattern("error") @@ Pattern("warning") @@ Pattern("timeout")
             @@ Pattern("connection") @@ Pattern("memory")
             @@ Pattern("database") @@ Pattern("slow")
             @@ [log_count_total |-> total, log_rate_per_minute |-> total,
                 log_error_ratio |-> (100 * Level("ERROR")) \div total,
                 log_warning_ratio |-> (100 * Level("WARNING")) \div total,
                 log_info_ratio |-> (100 * Level("INFO")) \div total]

\* _extract_combined_features (lines 201-261).  The function starts with
\* its own empty features dict (line 203), so the tests of lines 221, 225
\* and 229 and the reads of lines 241-253 find none of the fields the
\* other two extractors produced.
ExtractCombinedFeatures(metrics, logs) ==
    LET correlation ==
            IF "cpu_utilization" \in DOMAIN metrics /\ "error_rate" \in DOMAIN metrics
            THEN [cpu_error_correlation |-> 0]
            ELSE << >>
    IN  [system_stress_score |-> 0, anomaly_likelihood |-> 0] @@ correlation

\* extract_features (lines 38-63), called at time t.
ExtractFeatures(metrics, logs, t) ==
    ("timestamp" :> t)
        @@ ExtractCombinedFeatures(metrics, logs)
        @@ ExtractLogFeatures(logs)
        @@ ExtractMetricFeatures(metrics)

\* The inputs: each of four series absent, empty or with one sample; up to
\* two logs, each an INFO line or an ERROR line of a slow timed-out call.
MetricsInputs ==
    UNION { [S -> {<< >>, <<96>>}] :
              S \in SUBSET {"cpu_utilization", "memory_utilization",
                            "disk_utilization", "response_time"} }

LogKinds ==
    { [level |-> "INFO", patterns |-> {}, response_time_ms |-> 0],
      [level |-> "ERROR", patterns |-> {"error", "timeout"},
       response_time_ms |-> 1500] }

LogInputs ==
    {<< >>} \cup { <<l>> : l \in LogKinds }
            \cup { <<l, m>> : l \in LogKinds, m \in LogKinds }

\* One call of extract_features.
Extract ==
    /\ \E metrics \in MetricsInputs, logs \in LogInputs :
          extracted' = [called |-> TRUE, metrics |-> metrics, logs |-> logs,
                        features |-> ExtractFeatures(metrics, logs, now)]
    /\ UNCHANGED <<prediction_history, hour, last_raw, last_risk, risk_level,
                   last_call, recommended, threads>>
    /\ UNCHANGED <<now, alert_cooldown, incident_counter, last_emit, last_send>>
    /\ UNCHANGED detVars
    /\ UNCHANGED last_op

ExtractSpec == RiskInit /\ [][Extract]_vars

(***************************************************************************)
(* AlertManager._generate_recommendations (alert_manager.py, lines         *)
(* 162-212), called by _create_alert with the record and the level of the  *)
(* alert.                                                                  *)
(***************************************************************************)
\* recommendations[:5] (line 212).
FirstFive(list) == SubSeq(list, 1, Min(Len(list), 5))

GenerateRecommendations(f, level) ==
    LET cpu == IF f.cpu_current > 90
               THEN <<"Scale up CPU resources immediately",
                      "Check for CPU-intensive processes">>
               ELSE IF f.cpu_current > 70
               THEN <<"Monitor CPU usage closely",
                      "Consider scaling up if trend continues">>
               ELSE << >>
        memory == IF f.memory_current > 90
                  THEN <<"Scale up memory resources immediately",
                         "Check for memory leaks">>
                  ELSE IF f.memory_current > 75
                  THEN <<"Monitor memory usage trends">>
                  ELSE << >>
        errors == IF f.log_error_ratio > 100
                  THEN <<"Investigate recent deployments",
                         "Check database connectivity">>
                  ELSE IF f.log_error_ratio > 50
                  THEN <<"Review recent error logs">>
                  ELSE << >>
        performance == IF f.response_time_current > 2000
                       THEN <<"Investigate performance bottlenecks",
                              "Check external service dependencies">>
                       ELSE IF f.response_time_current > 1000
                       THEN <<"Monitor application performance">>
                       ELSE << >>
        rules == cpu \o memory \o errors \o performance
        levelled == IF level = "HIGH"
                    THEN <<"IMMEDIATE ACTION REQUIRED">> \o rules
                           \o <<"Consider incident response procedures">>
                    ELSE IF level = "MEDIUM"
                    THEN rules \o <<"Prepare for potential escalation",
                                    "Notify on-call engineer">>
                    ELSE rules
        all == IF levelled = << >>
               THEN <<"Continue monitoring system metrics",
                      "Review anomaly detection patterns">>
               ELSE levelled
    IN  FirstFive(all)

\* The records of the calls: each of the four readings below its rules, in
\* the lower bracket and in the upper one.
RecommendRecords ==
    { [IdleRecord EXCEPT !.cpu_current = c, !.memory_current = m,
                         !.log_error_ratio = e, !.response_time_current = r] :
        c \in {0, 71, 91}, m \in {0, 76, 91}, e \in {0, 60, 110},
        r \in {0, 1001, 2001} }

\* One call of _generate_recommendations.
Recommend ==
    /\ \E f \in RecommendRecords, level \in Levels :
          recommended' = [called |-> TRUE, f |-> f, level |-> level,
                          list |-> GenerateRecommendations(f, level)]
    /\ UNCHANGED <<prediction_history, hour, last_raw, last_risk, risk_level,
                   last_call, extracted, threads>>
    /\ UNCHANGED <<now, alert_cooldown, incident_counter, last_emit, last_send>>
    /\ UNCHANGED detVars
    /\ UNCHANGED last_op

RecommendSpec == RiskInit /\ [][Recommend]_vars

(***************************************************************************)
(* The two classifiers of a risk score: AlertManager._determine_risk_level *)
(* and RiskScorer.get_risk_level, each called with a score given in units  *)
(* of 1/ScoreScale.                                                        *)
(***************************************************************************)
\* risk_config['thresholds'] (risk_scorer.py, lines 26-30).
RiskThresholds ==
    [low_risk |-> <<0, 30>>, medium_risk |-> <<31, 70>>, high_risk |-> <<71, 100>>]

\* A classifier that would read the upper ends of the threshold pairs.
GetRiskLevelUpperEnds(score) ==
    IF score > RiskThresholds.medium_risk[2] * ScoreScale THEN "HIGH"
    ELSE IF score > RiskThresholds.low_risk[2] * ScoreScale THEN "MEDIUM"
    ELSE "LOW"

\* get_risk_level (risk_scorer.py, lines 320-327): the lower ends.
GetRiskLevel(score) ==
    IF score >= RiskThresholds.high_risk[1] * ScoreScale THEN "HIGH"
    ELSE IF score >= RiskThresholds.medium_risk[1] * ScoreScale THEN "MEDIUM"
    ELSE "LOW"

\* The scores classified: every tenth of a point from 0 to 100, and the
\* nearest values on both sides of 30, 31, 70 and 71.
ClassifiedScores ==
    { h * (ScoreScale \div 10) : h \in 0..(100 * 10) }
      \cup { p * ScoreScale + e : p \in {30, 31, 70, 71}, e \in {0 - 1, 1} }

\* One score handed to both classifiers.
ClassifyScore ==
    /\ \E score \in ClassifiedScores :
          risk_level' = [score |-> score,
                         alert |-> DetermineRiskLevel(score),
                         scorer |-> GetRiskLevel(score)]
    /\ UNCHANGED <<prediction_history, hour, last_raw, last_risk, last_call,
                   extracted, recommended, threads>>
    /\ UNCHANGED <<now, alert_cooldown, incident_counter, last_emit, last_send>>
    /\ UNCHANGED detVars
    /\ UNCHANGED last_op

LevelSpec == RiskInit /\ [][ClassifyScore]_vars

(***************************************************************************)
(* AnomalyDetector (anomaly_detector.py), the service with the scheduled   *)
(* jobs: _detection_cycle every minute and _retrain_cycle every hour, run  *)
(* one after the other by schedule.run_pending in the main loop.           *)
(***************************************************************************)

\* train_model, lines 120-122: if len(data) < self.config['min_samples'].
LegacyInsufficientData(n, mn) == n < mn

\* Line 134: self.scaler.fit_transform refits the scaler in place.
LegacyScalerAfter(outcome, old, fit) == IF outcome = "scaler_raises" THEN old ELSE fit

\* Line 137: self.model.fit refits the forest in place; a fit that raises
\* leaves the forest with what it had.
LegacyModelAfter(outcome, old, fit) ==
    IF outcome = "ok" THEN [fit |-> fit, fitted |-> TRUE, present |-> TRUE]
    ELSE old

\* Line 138 is the only assignment of is_trained in train_model.
LegacyIsTrainedAfter(outcome, was) == IF outcome = "ok" THEN TRUE ELSE was

\* train_model(data) (lines 117-148) with len(data) = n.  _save_model
\* catches its own exceptions.
LegacyTrainModel(n, outcome) ==
    IF LegacyInsufficientData(n, min_samples)
    THEN /\ last_op' = [Op("train", FALSE) EXCEPT !.n = n]
         /\ UNCHANGED <<is_trained, model, scaler, fit_count>>
    ELSE /\ fit_count' = fit_count + 1
         /\ scaler' = LegacyScalerAfter(outcome, scaler, fit_count + 1)
         /\ model' = LegacyModelAfter(outcome, model, fit_count + 1)
         /\ is_trained' = LegacyIsTrainedAfter(outcome, is_trained)
         /\ last_op' = [Op("train", outcome = "ok") EXCEPT !.n = n]

\* _initial_training (lines 333-355): up to 20 samples are collected into
\* a local list and handed to train_model.
LegacyInitialTraining ==
    /\ pc = "legacy_init"
    /\ pc' = "legacy_loop"
    /\ \E n \in {0, LegacyInitialSamples}, outcome \in TrainOutcomes :
        IF n = 0
        THEN /\ last_op' = Op("initial_training", FALSE)
             /\ UNCHANGED <<is_trained, model, scaler, fit_count>>
        ELSE LegacyTrainModel(n, outcome)
    /\ UNCHANGED <<now, alert_cooldown, incident_counter, last_emit, last_send>>
    /\ UNCHANGED riskVars
    /\ UNCHANGED <<max_training_samples, min_samples, training_data, running,
                   detector_history, elapsed, next_id>>

\* _retrain_cycle (lines 320-331): train_model(self.training_data).
LegacyRetrainCycle ==
    /\ pc = "legacy_loop"
    /\ fit_count < MaxFits
    /\ \E outcome \in TrainOutcomes :
        LegacyTrainModel(Len(training_data), outcome)
    /\ UNCHANGED <<now, alert_cooldown, incident_counter, last_emit, last_send>>
    /\ UNCHANGED riskVars
    /\ UNCHANGED <<max_training_samples, min_samples, training_data, running,
                   pc, detector_history, elapsed, next_id>>

\* detect_anomaly, lines 153-155: the model_not_trained return.
ModelNotTrained(trained) == ~trained

\* detect_anomaly, line 180: prediction == -1 (the decision function is
\* negative) or risk_score > risk_threshold; the score in hundredths.
LegacyIsAnomaly(a, risk) == a < 0 \/ risk > LegacyRiskThreshold * 100

\* _detection_cycle, lines 314-315.
LegacyTrim(buf) == IF Len(buf) > LegacyMaxTraining THEN LastK(buf, LegacyKeep) ELSE buf

\* process_and_alert, lines 230-234: the detector's own history.
LegacyHistoryAfter(k) == Min(LegacyHistoryKeep, k + 1)

LegacyHours == {12}

\* The stages of a pass of the main loop (lines 288-298) that can raise:
\* schedule.run_pending itself (caught on line 296),
\* collect_and_process_data (caught on line 113, None is returned),
\* detect_anomaly (caught on line 193, the result is not an anomaly) and
\* put_custom_metric (caught in the client).
LegacyCycleFailures == {"run_pending", "collection", "prediction", "publishing"}

\* _detection_cycle (lines 300-318) with process_and_alert and
\* detect_anomaly: collect, append, score with the RiskScorer when trained,
\* alert on an anomaly, trim; the stage fail raises, or none with "none".
LegacyPass(fail) ==
    \E collected \in BOOLEAN, a \in RiskAnomalyScores, f \in FeatureRecords,
       hr \in LegacyHours :
        /\ fail \in {"run_pending", "collection"} => ~collected
        /\ fail \in {"prediction", "publishing"} => collected
        /\ fail = "prediction" => ~ModelNotTrained(is_trained)
        /\ pc' = LoopAfterPass(pc, fail)
        /\ IF ~collected
           THEN /\ last_op' = [Op("cycle", FALSE) EXCEPT !.failed = fail]
                /\ UNCHANGED <<training_data, next_id, detector_history, now>>
                /\ UNCHANGED alertVars
                /\ UNCHANGED riskVars
           ELSE
            /\ training_data' = LegacyTrim(Append(training_data, next_id))
            /\ next_id' = NextId(next_id)
            /\ detector_history' = LegacyHistoryAfter(detector_history)
            /\ IF ModelNotTrained(is_trained) \/ fail = "prediction"
               THEN /\ last_op' = [Op("cycle", TRUE) EXCEPT
                                     !.sample = next_id,
                                     !.scored = fail = "prediction",
                                     !.failed = fail]
                    /\ UNCHANGED <<alertVars, now>>
                    /\ UNCHANGED riskVars
               ELSE LET x == RiskBeforeRounding(a, f, prediction_history, hr)
                        risk == CalculateRiskScoreResult(a, f, prediction_history, hr)
                        anomaly == LegacyIsAnomaly(a, risk)
                    IN  /\ Len(prediction_history) < MaxCalls
                        /\ prediction_history' = StorePrediction(prediction_history, x)
                        /\ last_risk' = risk
                        /\ last_raw' = RiskBeforeClamp(a, f, prediction_history, hr)
                        /\ hour' = hr
                        /\ last_call' = CallOf(a, f, prediction_history)
                        /\ UNCHANGED <<risk_level, extracted, recommended, threads>>
                        /\ last_op' = [Op("cycle", TRUE) EXCEPT
                                         !.scored = TRUE,
                                         !.alert = anomaly,
                                         !.sample = next_id,
                                         !.failed = fail]
                        /\ IF anomaly
                           THEN SendAlert(risk * (ScoreScale \div 100), now, 0)
                           ELSE UNCHANGED <<alertVars, now>>

\* A pass in which no stage raises.
LegacyDetectionCycle ==
    /\ pc = "legacy_loop"
    /\ Len(training_data) < min_samples + MaxCapacity
    /\ LegacyPass("none")
    /\ UNCHANGED <<max_training_samples, min_samples, is_trained, model,
                   scaler, running, elapsed, fit_count>>

\* A pass in which a stage raises.
LegacyFailingCycle ==
    /\ pc = "legacy_loop"
    /\ Len(training_data) < MaxCapacity
    /\ \E fail \in LegacyCycleFailures : LegacyPass(fail)
    /\ UNCHANGED <<max_training_samples, min_samples, is_trained, model,
                   scaler, running, elapsed, fit_count>>

\* KeyboardInterrupt in the main loop (lines 293-295).
LegacyStop ==
    /\ pc = "legacy_loop"
    /\ pc' = "legacy_stopped"
    /\ last_op' = Op("stop", TRUE)
    /\ UNCHANGED <<now, alert_cooldown, incident_counter, last_emit, last_send>>
    /\ UNCHANGED riskVars
    /\ UNCHANGED <<max_training_samples, min_samples, training_data,
                   is_trained, model, scaler, running, detector_history,
                   elapsed, next_id, fit_count>>

LegacyNext ==
    \/ LegacyInitialTraining
    \/ LegacyDetectionCycle
    \/ LegacyRetrainCycle
    \/ LegacyStop

ProgNext ==
    \/ Start
    \/ WaitIteration
    \/ GiveUp
    \/ InitialTrain
    \/ LoopIteration
    \/ LoopExit
    \/ Stop

Next ==
    \/ ProgNext
    \/ ExternalTrain
    \/ LegacyNext

Spec == Init /\ [][Next]_vars

(***************************************************************************)
(* The two services with passes in which a stage raises.                   *)
(***************************************************************************)
FaultInit ==
    /\ \/ /\ max_training_samples = MaxCapacity
          /\ min_samples = MinSamplesSmall
          /\ DetectorInit
       \/ LegacyInit
    /\ AlertManagerInit
    /\ RiskScorerInit

FaultNext ==
    \/ ProgNext
    \/ FailingLoopIteration
    \/ LegacyNext
    \/ LegacyFailingCycle

FaultSpec == FaultInit /\ [][FaultNext]_vars

(***************************************************************************)
(* The detector's own thread under a fair scheduler, with nobody calling   *)
(* stop() and a metrics provider that keeps delivering: each step of       *)
(* start() that can be taken is taken, and collections keep succeeding.    *)
(* The configuration is the shape of the default one (min_samples 50,      *)
(* max_samples 500), where min_samples is below the capacity and above    *)
(* the number of samples the bounded startup wait can gather, or a small   *)
(* one whose startup wait can gather min_samples.                          *)
(***************************************************************************)
LiveConfigs ==
    {<<MaxCapacity + 8, MaxCapacity + 7>>, <<MaxCapacity, MinSamplesSmall>>}

LiveInit ==
    /\ \E config \in LiveConfigs :
        /\ max_training_samples = config[1]
        /\ min_samples = config[2]
    /\ DetectorInit
    /\ AlertManagerInit
    /\ RiskScorerInit

LiveNext ==
    \/ Start
    \/ WaitIteration
    \/ GiveUp
    \/ InitialTrain
    \/ LoopIteration

Collected == last_op'.ok

LiveSpec ==
    /\ LiveInit
    /\ [][LiveNext]_vars
    /\ WF_vars(Start)
    /\ WF_vars(WaitIteration /\ Collected)
    /\ WF_vars(GiveUp)
    /\ WF_vars(InitialTrain)
    /\ WF_vars(LoopIteration /\ Collected)

(***************************************************************************)
(* The optimized service with stop() called at any time and with passes    *)
(* in which a stage raises; the thread of the loop keeps being scheduled,  *)
(* so the test of the while statement is made when the pass before it is   *)
(* over.                                                                   *)
(***************************************************************************)
StopInit ==
    /\ OptimizedInit
    /\ AlertManagerInit
    /\ RiskScorerInit

StopNext ==
    \/ ProgNext
    \/ FailingLoopIteration

StopSpec ==
    /\ StopInit
    /\ [][StopNext]_vars
    /\ WF_vars(LoopExit)

(***************************************************************************)
(* Properties.                                                             *)
(***************************************************************************)

\* C1: every risk score the system computes lies in [0, 100]: the score
\* calculate_risk_score returns, every score stored in the RiskScorer's
\* history, whatever the multipliers made of the weighted sum, and every
\* score the detector's _calculate_risk_score returns.
RiskScoreInRange ==
    /\ last_risk \in 0..(100 * 100)
    /\ \A i \in 1..Len(prediction_history) :
          prediction_history[i] \in 0..(100 * RiskDen)
    /\ \A a \in AnomalyScores, stress \in StressScores, er \in ErrorRates :
          DetCalculateRiskScore(a, stress, er) \in 0..(100 * ScoreScale)

\* The multipliers took the last score above 100 and the clamp brought it
\* back, with a history long enough for the trend factor to apply.
ClampedAboveHundred ==
    /\ Len(prediction_history) >= 4
    /\ last_raw > 100 * RiskDen
    /\ last_risk = 100 * 100
    /\ prediction_history[Len(prediction_history)] = 100 * RiskDen

\* C2: after every completed operation (startup collection, train, cycle,
\* cleanup, stop) the training buffer holds at most max_training_samples
\* entries.
BufferWithinCapacity == Len(training_data) <= max_training_samples

\* A detection cycle collected a record with the buffer at capacity.
CycleAtCapacity ==
    /\ last_op.op = "cycle"
    /\ last_op.ok
    /\ Len(training_data) = max_training_samples

\* C3: when an append takes the buffer over max_training_samples, the
\* buffer afterwards is exactly the floor(max_training_samples / 2) most
\* recent entries, in their order, for odd and even capacities.
TrimKeepsFloorHalf ==
    [][ (last_op'.op = "startup_collect" /\ last_op'.trimmed) =>
          training_data' = LastK(Append(training_data, last_op'.sample),
                                 FloorDiv(max_training_samples, 2)) ]_vars

\* C4: train called with fewer than min_samples samples returns false and
\* leaves is_trained, the model, the scaler and the buffer as they were.
TrainInsufficientNoChange ==
    [][ (last_op'.op = "train" /\ last_op'.n < min_samples) =>
          /\ last_op'.ok = FALSE
          /\ UNCHANGED <<is_trained, model, scaler, training_data, fit_count>> ]_vars

\* train has just returned false on a non-empty buffer below min_samples.
TrainRefused ==
    /\ last_op.op = "train"
    /\ ~last_op.ok
    /\ last_op.n < min_samples
    /\ last_op.n > 0
    /\ Len(training_data) = last_op.n

\* C5: once is_trained is true no operation sets it back to false.
TrainedStaysTrained == [][is_trained => is_trained']_vars

\* A retraining has failed on a detector that was already trained.
FailedRetrainWhileTrained ==
    /\ is_trained
    /\ last_op.op = "train"
    /\ ~last_op.ok
    /\ fit_count >= 2

\* C6: the (model, scaler) pair always comes from one successful fit: a
\* train call that fails keeps the previous model and the previous scaler,
\* and no state pairs the scaler of one fit with the model of another.
PairFromOneFit ==
    IF scaler = 0 THEN ~model.fitted
    ELSE model.present /\ model.fitted /\ model.fit = scaler

ModelScalerAtomic ==
    [][ /\ (last_op'.op = "train" /\ ~last_op'.ok) => UNCHANGED <<model, scaler>>
        /\ PairFromOneFit' ]_vars

\* C7: after the startup wait has given up, training is retried, and with
\* a fair scheduler and a provider that keeps delivering records the
\* detector is eventually trained.
GaveUp == last_op.op = "give_up" /\ max_training_samples >= min_samples

EventuallyTrained == GaveUp ~> is_trained

\* C8: a detection cycle of an untrained detector does no scoring: no
\* prediction is made, the RiskScorer's history gets no entry, no alert is
\* attempted, and the cycle completes with the loop going on.
UntrainedCycleSkipsInference ==
    [][ (last_op'.op = "cycle" /\ ~is_trained) =>
          /\ ~last_op'.scored
          /\ ~last_op'.alert
          /\ UNCHANGED alertVars
          /\ UNCHANGED riskVars
          /\ pc \in {"loop", "legacy_loop"}
          /\ pc' = pc ]_vars

\* An untrained detector has completed a cycle that collected a record.
UntrainedCycleDone ==
    /\ last_op.op = "cycle"
    /\ last_op.ok
    /\ ~is_trained
    /\ ~last_op.scored
    /\ pc = "loop"
    /\ Len(training_data) >= min_samples

\* A step in which send_alert was called: every call that changes anything
\* leaves its record in last_send.
SendStep == last_send' # last_send

\* When an alert of the level was last dispatched before this step lies
\* less than min_alert_interval back.
RecentlyEmitted(level) ==
    /\ last_emit[level] # NoTime
    /\ now - last_emit[level] < MinAlertInterval

\* C9: send_alert emits an alert of a level exactly when no alert of that
\* level was emitted less than 300 seconds earlier, so two emitted alerts
\* of one level are at least 300 seconds apart.
EmitsIffOutsideCooldown ==
    [][ SendStep =>
          /\ last_send'.attempted
          /\ last_send'.at = now
          /\ last_send'.emitted <=> ~RecentlyEmitted(last_send'.level)
          /\ last_send'.emitted =>
                \/ last_emit[last_send'.level] = NoTime
                \/ now - last_emit[last_send'.level] >= MinAlertInterval ]_vars

\* Two HIGH alerts and no other were emitted, the second at t = 301: the
\* first was emitted at t = 0 or t = 1.
SecondAlertAfterInterval ==
    /\ now = 301
    /\ incident_counter = 2
    /\ last_send = [NoSend EXCEPT !.level = "HIGH", !.attempted = TRUE,
                                  !.emitted = TRUE, !.at = 301]
    /\ alert_cooldown["MEDIUM"] = NoTime
    /\ alert_cooldown["LOW"] = NoTime

\* A HIGH alert was emitted at t = 0 and the attempt at t = 100 was
\* suppressed.
SuppressedInsideInterval ==
    /\ now = 100
    /\ last_emit["HIGH"] = 0
    /\ last_send = [NoSend EXCEPT !.level = "HIGH", !.attempted = TRUE,
                                  !.at = 100]

\* C10: a suppressed send_alert changes no state: the cooldown table and
\* the incident counter stay as they were and nothing is dispatched; a
\* cooldown entry changes only in a step that emits an alert.
SuppressedChangesNothing ==
    [][ /\ (SendStep /\ ~last_send'.emitted) =>
              UNCHANGED <<alert_cooldown, incident_counter, last_emit>>
        /\ (alert_cooldown' # alert_cooldown) =>
              /\ SendStep
              /\ last_send'.emitted
              /\ incident_counter' = incident_counter + 1 ]_vars

\* An attempt was suppressed while the cooldown of its level was running,
\* and the entry of the level still shows the earlier alert.
SuppressedAttempt ==
    /\ last_send.attempted
    /\ ~last_send.emitted
    /\ alert_cooldown[last_send.level] # NoTime
    /\ alert_cooldown[last_send.level] < last_send.at
    /\ incident_counter >= 1

\* C11: cooldowns are independent per level: a send_alert call changes no
\* cooldown entry but that of its own level, and an attempt whose own level
\* has no running cooldown is emitted whatever the entries of the other
\* levels are.
CooldownsIndependent ==
    [][ SendStep =>
          /\ \A l \in Levels \ {last_send'.level} :
                alert_cooldown'[l] = alert_cooldown[l]
          /\ (\/ alert_cooldown[last_send'.level] = NoTime
              \/ now - alert_cooldown[last_send'.level] >= MinAlertInterval)
                => last_send'.emitted ]_vars

\* A MEDIUM alert was emitted while the cooldown of an earlier HIGH alert
\* was still running, and the HIGH entry still shows the earlier alert.
OtherLevelEmittedDuringCooldown ==
    /\ last_send.level = "MEDIUM"
    /\ last_send.emitted
    /\ alert_cooldown["HIGH"] # NoTime
    /\ alert_cooldown["HIGH"] < last_send.at
    /\ last_send.at - alert_cooldown["HIGH"] < MinAlertInterval
    /\ alert_cooldown["MEDIUM"] >= last_send.at

\* C12: when the delivery of a built alert fails on any or all channels,
\* the cooldown entry of the alert's level is still set to the time after
\* the dispatch, each channel was called once and no more, and send_alert
\* raises nothing to its caller.
CooldownSetDespiteDeliveryFailure ==
    [][ (SendStep /\ last_send'.emitted) =>
          /\ alert_cooldown'[last_send'.level] = now'
          /\ incident_counter' = incident_counter + 1
          /\ \A c \in Channels : ChannelCalls(last_send'.failed)[c] = 1
          /\ ~last_send'.raised ]_vars

\* An alert failed on all three channels and the cooldown of its level
\* runs from that attempt; a later attempt of the level was not needed.
AllChannelsFailed ==
    /\ last_send.emitted
    /\ last_send.failed = Channels
    /\ alert_cooldown[last_send.level] = now
    /\ incident_counter = 1

\* C13: every score in [0, 100] gets exactly one level, LOW below 31,
\* MEDIUM from 31 to below 71, HIGH from 71 on, and _determine_risk_level
\* and get_risk_level give the same level.
LevelsPartitionAndAgree ==
    risk_level.score # NoTime =>
        /\ risk_level.alert \in Levels
        /\ risk_level.alert = risk_level.scorer
        /\ risk_level.alert = "LOW" <=> risk_level.score < 31 * ScoreScale
        /\ risk_level.alert = "MEDIUM" <=>
              (31 * ScoreScale <= risk_level.score /\ risk_level.score < 71 * ScoreScale)
        /\ risk_level.alert = "HIGH" <=> risk_level.score >= 71 * ScoreScale

\* A score between 70 and 71 was classified, and both gave MEDIUM.
ClassifiedBelowHigh ==
    /\ risk_level.score = 70 * ScoreScale + 1
    /\ risk_level.alert = "MEDIUM"
    /\ risk_level.scorer = "MEDIUM"

\* C14: every detection cycle that collected a record appends it to the
\* training buffer, also when the buffer is at capacity, so that after
\* the cycle the newest record is the last entry of the buffer.
CycleAppendsRecord ==
    [][ (last_op'.op = "cycle" /\ last_op'.ok) =>
          /\ Len(training_data') > 0
          /\ training_data'[Len(training_data')] = last_op'.sample ]_vars

\* C15: for the record cpu_current = 95, memory_current = 60,
\* log_error_ratio = 0.02, response_time_current = 150 with anomaly score
\* -0.2 and an empty history, calculate_risk_score normalizes the anomaly
\* score to 60, applies the critical-system multiplier 1.5 and returns a
\* score of at least 71.
BusyCpuScoresHigh ==
    (/\ last_call.called
     /\ last_call.a = 0 - 4
     /\ last_call.f = BusyCpuRecord
     /\ last_call.h = << >>) =>
        /\ NormalizeAnomalyScore(last_call.a) = 2 * 60
        /\ SeverityMultiplier(last_call.f) = 3 * 10 * 10
        /\ last_risk >= 71 * 100

\* C16: calculate_risk_score is a function of its declared inputs: a second
\* call with the anomaly score, the feature record and the history of the
\* last call returns the score the last call returned, at whatever hour of
\* the day the second call is made.
ScoreIndependentOfHour ==
    last_call.called =>
        \A hr \in Hours :
            CalculateRiskScoreResult(last_call.a, last_call.f, last_call.h, hr)
                = last_risk

\* C17: with memory_current, disk_current and system_stress_score held
\* fixed, the system-stress sub-score does not decrease as cpu_current goes
\* up through 50, 70, 80, 90, 95: of two calls that differ only in
\* cpu_current, the one with the higher cpu_current scores at least as high.
StressMonotoneInCpu ==
    [][ (/\ last_call.f # << >>
         /\ last_call'.f = [last_call.f EXCEPT
                               !.cpu_current = last_call'.f.cpu_current]
         /\ last_call.f.cpu_current <= last_call'.f.cpu_current) =>
          last_call.stress <= last_call'.stress ]_vars

\* The record with cpu_current 95 and memory_current 61 was scored: the
\* top CPU bracket and the lowest memory bracket, (100 + 25) / 4.
TopCpuBracketScored ==
    /\ last_call.f # << >>
    /\ last_call.f.cpu_current = 95
    /\ last_call.f.memory_current = 61
    /\ last_call.f.disk_current = 0
    /\ last_call.f.system_stress_score = 0
    /\ last_call.stress = 100 + 25

\* C18: extract_features with an empty metrics window and an empty log
\* window returns the complete default-valued record: every default metric
\* field and every default log field with the value 0, system_stress_score,
\* anomaly_likelihood and a timestamp, and no error empties the record.
EmptyWindowsGiveDefaults ==
    (extracted.called /\ DOMAIN extracted.metrics = {} /\ extracted.logs = << >>) =>
        /\ DOMAIN extracted.features =
              {"cpu_current", "cpu_mean", "cpu_trend", "memory_current",
               "memory_mean", "disk_current", "system_stress_score",
               "anomaly_likelihood", "log_count_total", "log_rate_per_minute",
               "log_error_ratio", "log_warning_ratio", "log_info_ratio",
               "error_types_count", "recent_error_spike", "timestamp"}
        /\ \A k \in DOMAIN extracted.features \ {"timestamp"} :
              extracted.features[k] = 0
        /\ extracted.features["timestamp"] = now

\* extract_features was called with both windows empty and returned a
\* record with cpu_current and recent_error_spike in it.
EmptyWindowsExtracted ==
    /\ extracted.called
    /\ DOMAIN extracted.metrics = {}
    /\ extracted.logs = << >>
    /\ "cpu_current" \in DOMAIN extracted.features
    /\ "recent_error_spike" \in DOMAIN extracted.features

\* C19: the record returned has the same field names for every input: with
\* a non-empty metrics window that lacks a series, the fields of that
\* series are present with their default, cpu_current = 0 when there is no
\* CPU series.
MissingSeriesGetDefaults ==
    extracted.called =>
        /\ DOMAIN GetDefaultMetricFeatures \subseteq DOMAIN extracted.features
        /\ DOMAIN GetDefaultLogFeatures \subseteq DOMAIN extracted.features
        /\ "cpu_utilization" \notin DOMAIN extracted.metrics =>
              extracted.features["cpu_current"] = 0

\* C20: the detection loop does not end because a stage of one pass
\* raised: whichever of collection, buffer append, prediction, alert
\* delivery, metric publishing or the loop's own bookkeeping fails, the
\* thread is back at the top of the loop with the stop flag as it was, so
\* that the next pass starts unless stop() was called.
LoopSurvivesCycleFailure ==
    [][ (/\ last_op'.op = "cycle"
         /\ \/ last_op'.failed # "none"
            \/ (SendStep /\ last_send'.failed # {})) =>
          /\ pc \in {"loop", "legacy_loop"}
          /\ pc' = pc
          /\ running' = running
          /\ ~last_send'.raised ]_vars

\* A pass of a trained detector failed in its prediction stage with a
\* record collected, and the thread is at the top of the loop with the
\* stop flag not set.
FailedCycleLoopGoesOn ==
    /\ last_op.op = "cycle"
    /\ last_op.failed = "prediction"
    /\ last_op.ok
    /\ is_trained
    /\ pc = "loop"
    /\ running

\* C22: the customer-impact factor 1.3 enters a score at most once: the
\* score before the clamp is the weighted sum times 1.5 when the critical
\* trigger fires, times 1.3 when the connection ratio is above 0.1 or the
\* database ratio is above 0.05 or both, times the temporal factor.
CustomerImpactAppliedOnce ==
    last_call.called =>
        LET f == last_call.f
            critical == IF f.cpu_current > 95 \/ f.memory_current > 98
                        THEN 3 ELSE 2
            customer == IF \/ f.log_pattern_connection_ratio > 10
                           \/ f.log_pattern_database_ratio > 5
                        THEN 13 ELSE 10
        IN  last_raw =
              WeightedSum(NormalizeAnomalyScore(last_call.a),
                          CalculateSystemStressScore(f),
                          CalculateErrorRateScore(f),
                          CalculatePerformanceScore(f))
                * (critical * customer * 10)
                * TemporalMultiplier(last_call.h, hour)

\* C23: the error-rate sub-score that entered the weighted sum of a call
\* is min(100, base + spike + diversity) of the record's log_error_ratio,
\* recent_error_spike and error_types_count, so at least 80 for a record
\* with log_error_ratio above 0.2.
ErrorSubScoreFollowsLadder ==
    last_call.called =>
        LET f == last_call.f
        IN  /\ last_raw =
                 WeightedSum(NormalizeAnomalyScore(last_call.a),
                             CalculateSystemStressScore(f),
                             ErrorRateLadder(f),
                             CalculatePerformanceScore(f))
                   * SeverityMultiplier(f)
                   * TemporalMultiplier(last_call.h, hour)
            /\ f.log_error_ratio > 200 => CalculateErrorRateScore(f) >= 80

\* C24: the system_stress_score of an extracted record is the mean of
\* cpu_current/100, memory_current/100 and min(log_error_ratio * 10, 1),
\* taken over those of the three the record has (in hundredths, rounded
\* down), so it is not 0 when the windows have a CPU and a memory series
\* at nonzero utilization.
StressScoreIsMeanOfFactors ==
    extracted.called =>
        LET f == extracted.features
            has(k) == k \in DOMAIN f
            factors ==
                (IF has("cpu_current") THEN <<f["cpu_current"]>> ELSE << >>)
                \o (IF has("memory_current") THEN <<f["memory_current"]>> ELSE << >>)
                \o (IF has("log_error_ratio")
                    THEN <<Min(f["log_error_ratio"] * 10, 100)>> ELSE << >>)
        IN  f["system_stress_score"] =
                IF factors = << >> THEN 0
                ELSE SumSeq(factors) \div Len(factors)

\* C25: the recommendations of a HIGH alert are at most 5 items, the first
\* is "IMMEDIATE ACTION REQUIRED" and the escalation note "Consider
\* incident response procedures" is among them, whatever the CPU, memory,
\* error-rate and response-time rules contribute.
HighAlertKeepsEscalationNote ==
    (recommended.called /\ recommended.level = "HIGH") =>
        /\ Len(recommended.list) <= 5
        /\ recommended.list[1] = "IMMEDIATE ACTION REQUIRED"
        /\ \E i \in 1..Len(recommended.list) :
              recommended.list[i] = "Consider incident response procedures"

\* C26: after a _train_model call of the optimized detector that returned
\* True the buffer holds its min(100, n) most recent entries, n being its
\* length when the call began, each at the place it had among them.
TrainKeepsMostRecent ==
    [][ (/\ last_op'.op = "train"
         /\ last_op'.ok
         /\ pc' \in {"init", "wait", "loop", "stopped"}) =>
          LET n == Len(training_data)
              kept == Min(KeepAfterTrain, n)
          IN  /\ last_op'.n = n
              /\ Len(training_data') = kept
              /\ \A i \in 1..kept :
                    training_data'[i] = training_data[n - kept + i] ]_vars

\* A train call on 125 records returned True and the buffer is the records
\* 26..125.
TrainedOnLongBuffer ==
    /\ last_op.op = "train"
    /\ last_op.ok
    /\ last_op.n = KeepAfterTrain + 25
    /\ Len(training_data) = KeepAfterTrain
    /\ training_data[1] = 26
    /\ training_data[KeepAfterTrain] = KeepAfterTrain + 25

\* C27: prediction_history never has more than 1000 entries: a call of
\* calculate_risk_score that returns its score puts exactly one entry, the
\* score before rounding, at the end, the entries before it keep their
\* order, and of a history that would pass 1000 the oldest entry goes.
HistoryBoundedFifo ==
    [][ (last_call'.called /\ last_call' # last_call) =>
          LET h == prediction_history
              g == prediction_history'
              n == Len(h)
          IN  /\ Len(g) = Min(n + 1, HistoryKeep)
              /\ g[Len(g)] = RiskBeforeRounding(last_call'.a, last_call'.f, h, hour')
              /\ \A i \in 1..(Len(g) - 1) : g[i] = h[n + 1 - Len(g) + i] ]_vars

\* A call on a full history: 1000 entries after it, the second entry of
\* before is now the first.
ScoredOnFullHistory ==
    /\ last_call.called
    /\ Len(prediction_history) = HistoryKeep
    /\ prediction_history[1] = 2 * RiskDen
    /\ prediction_history[HistoryKeep - 1] = (HistoryKeep % 97) * RiskDen

\* C29: when stop() has set the flag while the thread is in the detection
\* loop, the loop ends: the pass that was under way is completed, the next
\* test of the while statement finds the flag cleared, no pass starts
\* after stop(), and the thread leaves the loop.
LoopEndsAfterStop ==
    /\ [][ (last_op'.op = "cycle") => (running /\ running') ]_vars
    /\ [][ (pc = "loop" /\ pc' # "loop") => (~running /\ pc' = "stopped") ]_vars
    /\ (pc = "loop" /\ last_op.op = "stop") ~> (pc = "stopped")

\* The loop was left after stop() had been called during it, with records
\* of completed passes in the buffer.
LoopLeftAfterStop ==
    /\ pc = "stopped"
    /\ last_op.op = "loop_exit"
    /\ ~running
    /\ Len(training_data) > 0

\* C30: every alert a pass of the optimized detector hands to send_alert
\* is classified HIGH, so such a pass leaves the MEDIUM entry of the
\* cooldown table as it was.
DetectorAlertsAreHigh ==
    [][ (pc = "loop" /\ last_op'.op = "cycle" /\ last_op'.alert) =>
          /\ last_send'.attempted
          /\ last_send'.level = "HIGH"
          /\ alert_cooldown'["MEDIUM"] = alert_cooldown["MEDIUM"] ]_vars

=============================================================================
